---- MODULE Spec2Model ----
(***************************************************************************)
(* Model of ipfshttpclient/client/__init__.py: the version gate            *)
(* (assert_version), the connect() entry point, the session management of  *)
(* Client (__enter__, __exit__, close) and the JSON helpers (add_bytes,    *)
(* add_json, get_json).                                                    *)
(*                                                                         *)
(* A Python str is a sequence of one-character strings.                    *)
(***************************************************************************)
EXTENDS Integers, Sequences, FiniteSets, TLC

VARIABLES
    vArgs,          \* assert_version: the arguments of the call
    vOut,           \* assert_version: "pending", or the outcome of the call
    pc,             \* position of the caller: inside connect(), or using the client
    viaConnect,     \* the client was made by connect() (not by Client(...))
    daemonVersion,  \* the version string the daemon reports
    reply,          \* connect(): how the version query ended, "none" before it
    version_str,    \* connect(): the version the query returned, <<>> before it
    requestsSent,   \* number of HTTP requests connect() has sent
    gateRan,        \* connect(): assert_version has been called
    raised,         \* the last exception that reached the caller, or NoError
    returned,       \* the caller holds a client instance
    workarounds,    \* client._workarounds
    http,           \* client._client: its session, the pooled connections
                    \* open, and the number of connections made so far
    scopes,         \* the `with client:` blocks the caller is inside, innermost last
    exc,            \* the exception propagating through the caller, or NoError
    lastOp,         \* the operation performed last
    prevOp,         \* the operation performed before it
    lastExit,       \* what the last scope exit saw
    lastCall,       \* the connection and result of the last API call
    closed,         \* the sessions released so far
    jpc,            \* JSON helpers: "start", "added", "got"
    json_obj,       \* the value given to add_json
    chunk_size,     \* client.chunk_size
    blocks,         \* the daemon's store: the i-th file added, by content
    cid,            \* what add_json returned
    jOut            \* what get_json returned

versionVars == <<vArgs, vOut>>

clientVars == <<pc, viaConnect, daemonVersion, reply, version_str, requestsSent, gateRan,
                raised, returned, workarounds, http, scopes, exc, lastOp, prevOp,
                lastExit, lastCall, closed>>

jsonVars == <<jpc, json_obj, chunk_size, blocks, cid, jOut>>

vars == <<versionVars, clientVars, jsonVars>>

(***************************************************************************)
(* Bounds of the model.                                                    *)
(***************************************************************************)
MaxVerLen == 4      \* longest enumerated version string
MaxConn == 3        \* connections made over the life of one client
MaxDepth == 2       \* nesting of `with client:` blocks
MaxStrLen == 1      \* longest string inside a JSON value
MaxItems == 2       \* most items in a JSON array

(***************************************************************************)
(* Python str and list primitives used by the source.                      *)
(***************************************************************************)
Digits == {"0", "1", "2", "3", "4", "5", "6", "7", "8", "9"}

DigitVal(c) ==
    CASE c = "0" -> 0 [] c = "1" -> 1 [] c = "2" -> 2 [] c = "3" -> 3
      [] c = "4" -> 4 [] c = "5" -> 5 [] c = "6" -> 6 [] c = "7" -> 7
      [] c = "8" -> 8 [] c = "9" -> 9

\* Index of the first occurrence of character c in s, or 0.
RECURSIVE Find(_, _, _)
Find(s, c, i) ==
    IF i > Len(s) THEN 0
    ELSE IF s[i] = c THEN i
    ELSE Find(s, c, i + 1)

\* s.split('-', 1)[0]: everything before the first '-'.
DashPrefix(s) ==
    LET i == Find(s, "-", 1)
    IN  IF i = 0 THEN s ELSE SubSeq(s, 1, i - 1)

\* s.split('.'): the components between the dots; never an empty list.
RECURSIVE SplitDots(_)
SplitDots(s) ==
    LET i == Find(s, ".", 1)
    IN  IF i = 0 THEN <<s>>
        ELSE <<SubSeq(s, 1, i - 1)>> \o SplitDots(SubSeq(s, i + 1, Len(s)))

\* int(s) succeeds on a non-empty run of decimal digits; otherwise ValueError.
IntOk(s) == Len(s) > 0 /\ \A i \in 1..Len(s) : s[i] \in Digits

RECURSIVE IntOf(_)
IntOf(s) ==
    IF Len(s) = 0 THEN 0
    ELSE 10 * IntOf(SubSeq(s, 1, Len(s) - 1)) + DigitVal(s[Len(s)])

\* list(map(int, s.split('-', 1)[0].split('.'))): ok = FALSE is ValueError.
ParseVersion(s) ==
    LET parts == SplitDots(DashPrefix(s))
    IN  IF \A i \in 1..Len(parts) : IntOk(parts[i])
        THEN [ok |-> TRUE, v |-> [i \in 1..Len(parts) |-> IntOf(parts[i])]]
        ELSE [ok |-> FALSE, v |-> <<>>]

\* Python's a < b on two lists of int: the first differing element decides,
\* and a proper prefix is smaller.
RECURSIVE ListLess(_, _)
ListLess(a, b) ==
    IF Len(b) = 0 THEN FALSE
    ELSE IF Len(a) = 0 THEN TRUE
    ELSE IF a[1] # b[1] THEN a[1] < b[1]
    ELSE ListLess(Tail(a), Tail(b))

ListGreater(a, b) == ListLess(b, a)

ListGreaterEq(a, b) == ~ListLess(a, b)

\* Every sequence of at most n elements of S: the strings and lists drawn
\* as inputs.
RECURSIVE SeqsUpTo(_, _)
SeqsUpTo(S, n) ==
    IF n = 0 THEN {<<>>}
    ELSE LET shorter == SeqsUpTo(S, n - 1)
         IN  shorter \cup {Append(q, x) : q \in {t \in shorter : Len(t) = n - 1},
                                          x \in S}

(***************************************************************************)
(* assert_version                                                          *)
(***************************************************************************)
\* The loop over the blacklist, from entry i on.
RECURSIVE BlacklistLoop(_, _, _)
BlacklistLoop(version, blacklist, i) ==
    IF i > Len(blacklist) THEN "ok"
    ELSE LET b == ParseVersion(blacklist[i])
         IN  IF ~b.ok THEN "ValueError"
             ELSE IF version = b.v THEN "VersionMismatch"
             ELSE BlacklistLoop(version, blacklist, i + 1)

\* A variant of the range check with a slip: the maximum itself passes.
RangeRejectsAboveOnly(version, minimum, maximum) ==
    ListGreater(minimum, version) \/ ListGreater(version, maximum)

\* The condition of the first raise.
RangeRejects(version, minimum, maximum) ==
    ListGreater(minimum, version) \/ ListGreaterEq(version, maximum)

\* "ok" when the call returns, otherwise the exception it raises.
assert_version(version, minimum, maximum, blacklist) ==
    LET ver == ParseVersion(version)
        min == ParseVersion(minimum)
        max == ParseVersion(maximum)
    IN  IF ~ver.ok \/ ~min.ok \/ ~max.ok THEN "ValueError"
        ELSE IF RangeRejects(ver.v, min.v, max.v) THEN "VersionMismatch"
        ELSE BlacklistLoop(ver.v, blacklist, 1)

VERSION_MINIMUM == <<"0", ".", "4", ".", "2", "1">>
VERSION_BLACKLIST == <<>>
VERSION_MAXIMUM == <<"0", ".", "6", ".", "0">>

\* The arguments of a call that gives only the version.
IdleVersionArgs ==
    [version |-> <<>>, minimum |-> VERSION_MINIMUM, maximum |-> VERSION_MAXIMUM,
     blacklist |-> VERSION_BLACKLIST]


(***************************************************************************)
(* The HTTP backend client._client and the daemon behind it.               *)
(***************************************************************************)
None == 0

NoError == "none"

NoHttp == [session |-> None, pool |-> {}, made |-> 0]

\* Opens the pooled connection; it is an error to open a second one.
open_session(h) ==
    IF h.session # None
    THEN [h |-> h, err |-> "AssertionError"]
    ELSE [h |-> [session |-> h.made + 1,
                 pool    |-> h.pool \cup {h.made + 1},
                 made    |-> h.made + 1],
          err |-> NoError]

\* Releases the pooled connection; a no-op when none is open.
close_session(h) ==
    IF h.session = None
    THEN [h |-> h, err |-> NoError]
    ELSE [h |-> [h EXCEPT !.session = None, !.pool = @ \ {h.session}],
          err |-> NoError]

\* One HTTP request: on the session when one is open, otherwise on a
\* connection of its own, opened and closed for this request.
request(h) ==
    IF h.session # None
    THEN [h |-> h, conn |-> h.session, pooled |-> TRUE]
    ELSE [h |-> [h EXCEPT !.made = @ + 1], conn |-> h.made + 1, pooled |-> FALSE]

\* Client(addr, base, session=s): the constructor opens a session when asked.
ClientNew(s) == IF s THEN open_session(NoHttp).h ELSE NoHttp

RequestErrors ==
    {"ConnectionError", "ErrorResponse", "StatusError", "ProtocolError",
     "TimeoutError"}

DaemonVersions ==
    { <<"0", ".", "4", ".", "2", "0">>,
      <<"0", ".", "4", ".", "2", "1">>,
      <<"0", ".", "5", ".", "0", "-", "r", "c", "1">>,
      <<"0", ".", "6", ".", "0">>,
      <<"0", ".", "1", "0", ".", "0">>,
      <<"0", ".", "5", "r">> }

NoCall == [conn |-> None, pooled |-> FALSE, result |-> <<>>]

NoExit == [conn |-> None, exc |-> NoError]

ClientIdle ==
    /\ pc = "start"
    /\ viaConnect = FALSE
    /\ reply = "none"
    /\ version_str = <<>>
    /\ requestsSent = 0
    /\ gateRan = FALSE
    /\ raised = NoError
    /\ returned = FALSE
    /\ workarounds = {}
    /\ http = NoHttp
    /\ scopes = <<>>
    /\ exc = NoError
    /\ lastOp = "init"
    /\ prevOp = "init"
    /\ lastExit = NoExit
    /\ lastCall = NoCall
    /\ closed = {}

(***************************************************************************)
(* Client: session management.  Each method maps the backend state to the  *)
(* backend state after the call and the exception raised, if any.          *)
(***************************************************************************)
\* Variants of __enter__ with a slip: one replaces the session without
\* releasing the one that is open, one returns self without opening any.
EnterReplacesSession(h) ==
    [h |-> [session |-> h.made + 1,
            pool    |-> h.pool \cup {h.made + 1},
            made    |-> h.made + 1],
     err |-> NoError]

EnterOpensNothing(h) == [h |-> h, err |-> NoError]

\* __enter__: self._client.open_session(); return self
__enter__(h) == open_session(h)

\* Variants of close with a slip: one closes the session object without
\* looking whether there is one, one forgets the backend.
CloseUnguarded(h) ==
    IF h.session = None
    THEN [h |-> h, err |-> "AttributeError"]
    ELSE close_session(h)

CloseForgets(h) == [h |-> h, err |-> NoError]

\* close: self._client.close_session()
close(h) == close_session(h)

\* Variants of __exit__ with a slip: one does not close, one returns True.
ExitSkipsClose(h, exc_type) == [h |-> h, err |-> NoError, suppress |-> FALSE]

ExitSuppresses(h, exc_type) ==
    [h |-> close(h).h, err |-> close(h).err, suppress |-> TRUE]

\* __exit__: self.close(); returns None, so the exception is not suppressed.
__exit__(h, exc_type) ==
    [h |-> close(h).h, err |-> close(h).err, suppress |-> FALSE]


(***************************************************************************)
(* JSON values and their encoding (encoding.Json): compact text, object    *)
(* keys in sorted order, the two escapes \" and \\ inside strings.         *)
(***************************************************************************)
\* A JSON value: its kind t and, under the field of that kind, its content.
JNull == [t |-> "null", b |-> FALSE, n |-> 0, s |-> <<>>, items |-> <<>>,
          members |-> <<>>]
JBool(b) == [JNull EXCEPT !.t = "bool", !.b = b]
JInt(n) == [JNull EXCEPT !.t = "int", !.n = n]
JStr(str) == [JNull EXCEPT !.t = "str", !.s = str]
JList(items) == [JNull EXCEPT !.t = "list", !.items = items]
JDict(members) == [JNull EXCEPT !.t = "dict", !.members = members]

Quote == "\""
Backslash == "\\"

CharRank(c) ==
    CASE c = Quote -> 34 [] c = Backslash -> 92 [] c = "a" -> 97 [] c = "b" -> 98
      [] OTHER -> 0

\* Python's a < b on two str.
StrLess(a, b) ==
    ListLess([i \in 1..Len(a) |-> CharRank(a[i])], [i \in 1..Len(b) |-> CharRank(b[i])])

DigitChar(d) ==
    CASE d = 0 -> "0" [] d = 1 -> "1" [] d = 2 -> "2" [] d = 3 -> "3" [] d = 4 -> "4"
      [] d = 5 -> "5" [] d = 6 -> "6" [] d = 7 -> "7" [] d = 8 -> "8" [] d = 9 -> "9"

RECURSIVE NatToStr(_)
NatToStr(n) ==
    IF n < 10 THEN <<DigitChar(n)>>
    ELSE NatToStr(n \div 10) \o <<DigitChar(n % 10)>>

IntToStr(n) == IF n < 0 THEN <<"-">> \o NatToStr(0 - n) ELSE NatToStr(n)

RECURSIVE EscapeStr(_)
EscapeStr(str) ==
    IF Len(str) = 0 THEN <<>>
    ELSE (IF Head(str) \in {Quote, Backslash}
          THEN <<Backslash, Head(str)>>
          ELSE <<Head(str)>>) \o EscapeStr(Tail(str))

EncodeStr(str) == <<Quote>> \o EscapeStr(str) \o <<Quote>>

\* The keys of an object in sorted order.
RECURSIVE SortedKeys(_)
SortedKeys(keys) ==
    IF keys = {} THEN <<>>
    ELSE LET first == CHOOSE k \in keys : \A other \in keys \ {k} : StrLess(k, other)
         IN  <<first>> \o SortedKeys(keys \ {first})

RECURSIVE JsonEncode(_)
RECURSIVE EncodeItems(_, _)
RECURSIVE EncodeMembers(_, _, _)

EncodeItems(items, i) ==
    IF i > Len(items) THEN <<>>
    ELSE (IF i > 1 THEN <<",">> ELSE <<>>) \o JsonEncode(items[i])
         \o EncodeItems(items, i + 1)

EncodeMembers(members, keys, i) ==
    IF i > Len(keys) THEN <<>>
    ELSE (IF i > 1 THEN <<",">> ELSE <<>>) \o EncodeStr(keys[i]) \o <<":">>
         \o JsonEncode(members[keys[i]]) \o EncodeMembers(members, keys, i + 1)

\* encoding.Json().encode(obj)
JsonEncode(obj) ==
    CASE obj.t = "null" -> <<"n", "u", "l", "l">>
      [] obj.t = "bool" -> IF obj.b THEN <<"t", "r", "u", "e">>
                           ELSE <<"f", "a", "l", "s", "e">>
      [] obj.t = "int"  -> IntToStr(obj.n)
      [] obj.t = "str"  -> EncodeStr(obj.s)
      [] obj.t = "list" -> <<"[">> \o EncodeItems(obj.items, 1) \o <<"]">>
      [] obj.t = "dict" ->
            <<"{">> \o EncodeMembers(obj.members, SortedKeys(DOMAIN obj.members), 1) \o <<"}">>

(***************************************************************************)
(* The JSON decoder of the response core: a parse result is ok, the value  *)
(* and the position after it.                                              *)
(***************************************************************************)
ParseFail == [ok |-> FALSE, val |-> JNull, next |-> 0]

HasAt(s, i, word) ==
    /\ i + Len(word) - 1 <= Len(s)
    /\ SubSeq(s, i, i + Len(word) - 1) = word

\* The position after the run of digits that starts at i.
RECURSIVE DigitsEnd(_, _)
DigitsEnd(s, i) ==
    IF i <= Len(s) /\ s[i] \in Digits THEN DigitsEnd(s, i + 1) ELSE i

ParseInt(s, i) ==
    LET start == IF s[i] = "-" THEN i + 1 ELSE i
        stop  == DigitsEnd(s, start)
    IN  IF stop = start THEN ParseFail
        ELSE [ok |-> TRUE,
              val |-> JInt(IF s[i] = "-" THEN 0 - IntOf(SubSeq(s, start, stop - 1))
                           ELSE IntOf(SubSeq(s, start, stop - 1))),
              next |-> stop]

\* The text of a string whose opening quote is before i; acc holds the
\* characters read so far.
RECURSIVE ParseStrBody(_, _, _)
ParseStrBody(s, i, acc) ==
    IF i > Len(s) THEN ParseFail
    ELSE IF s[i] = Quote THEN [ok |-> TRUE, val |-> JStr(acc), next |-> i + 1]
    ELSE IF s[i] = Backslash
         THEN IF i + 1 > Len(s) \/ s[i + 1] \notin {Quote, Backslash} THEN ParseFail
              ELSE ParseStrBody(s, i + 2, Append(acc, s[i + 1]))
    ELSE ParseStrBody(s, i + 1, Append(acc, s[i]))

ParseStr(s, i) ==
    IF i <= Len(s) /\ s[i] = Quote THEN ParseStrBody(s, i + 1, <<>>) ELSE ParseFail

RECURSIVE ParseValue(_, _)
RECURSIVE ParseItems(_, _, _)
RECURSIVE ParseMembers(_, _, _)

\* The items of an array after its '[' or after a ','.
ParseItems(s, i, acc) ==
    LET item == ParseValue(s, i)
    IN  IF ~item.ok \/ item.next > Len(s) THEN ParseFail
        ELSE IF s[item.next] = "]"
             THEN [ok |-> TRUE, val |-> JList(Append(acc, item.val)),
                   next |-> item.next + 1]
        ELSE IF s[item.next] = ","
             THEN ParseItems(s, item.next + 1, Append(acc, item.val))
        ELSE ParseFail

\* The members of an object after its '{' or after a ','; a key met again
\* replaces the earlier one.
ParseMembers(s, i, acc) ==
    LET key == ParseStr(s, i)
    IN  IF ~key.ok \/ key.next > Len(s) \/ s[key.next] # ":" THEN ParseFail
        ELSE LET item == ParseValue(s, key.next + 1)
                 more == [k \in (DOMAIN acc) \cup {key.val.s} |->
                              IF k = key.val.s THEN item.val ELSE acc[k]]
             IN  IF ~item.ok \/ item.next > Len(s) THEN ParseFail
                 ELSE IF s[item.next] = "}"
                      THEN [ok |-> TRUE, val |-> JDict(more), next |-> item.next + 1]
                 ELSE IF s[item.next] = ","
                      THEN ParseMembers(s, item.next + 1, more)
                 ELSE ParseFail

ParseValue(s, i) ==
    IF i > Len(s) THEN ParseFail
    ELSE IF HasAt(s, i, <<"n", "u", "l", "l">>)
         THEN [ok |-> TRUE, val |-> JNull, next |-> i + 4]
    ELSE IF HasAt(s, i, <<"t", "r", "u", "e">>)
         THEN [ok |-> TRUE, val |-> JBool(TRUE), next |-> i + 4]
    ELSE IF HasAt(s, i, <<"f", "a", "l", "s", "e">>)
         THEN [ok |-> TRUE, val |-> JBool(FALSE), next |-> i + 5]
    ELSE IF s[i] = "-" \/ s[i] \in Digits THEN ParseInt(s, i)
    ELSE IF s[i] = Quote THEN ParseStr(s, i)
    ELSE IF s[i] = "["
         THEN IF HasAt(s, i, <<"[", "]">>)
              THEN [ok |-> TRUE, val |-> JList(<<>>), next |-> i + 2]
              ELSE ParseItems(s, i + 1, <<>>)
    ELSE IF s[i] = "{"
         THEN IF HasAt(s, i, <<"{", "}">>)
              THEN [ok |-> TRUE, val |-> JDict(<<>>), next |-> i + 2]
              ELSE ParseMembers(s, i + 1, <<>>)
    ELSE ParseFail

\* The documents of a response body, one after the other; a body that is
\* not JSON throughout is a ProtocolError.
RECURSIVE JsonDecodeAll(_, _, _)
JsonDecodeAll(s, i, acc) ==
    IF i > Len(s) THEN [err |-> NoError, val |-> acc]
    ELSE LET doc == ParseValue(s, i)
         IN  IF ~doc.ok THEN [err |-> "ProtocolError", val |-> <<>>]
             ELSE JsonDecodeAll(s, doc.next, Append(acc, doc.val))

(***************************************************************************)
(* The daemon's file store and the helpers add_bytes, add_json, get_json.  *)
(***************************************************************************)
\* multipart.stream_bytes(data, chunk_size): the body, in chunks.
RECURSIVE stream_bytes(_, _)
stream_bytes(data, size) ==
    IF Len(data) <= size THEN <<data>>
    ELSE <<SubSeq(data, 1, size)>> \o stream_bytes(SubSeq(data, size + 1, Len(data)), size)

\* What the daemon receives: the chunks of the body joined.
RECURSIVE Joined(_)
Joined(chunks) ==
    IF Len(chunks) = 0 THEN <<>> ELSE Head(chunks) \o Joined(Tail(chunks))

\* The address of a file is found from its content: equal files share it.
CidOf(store, content) ==
    IF \E i \in 1..Len(store) : store[i] = content
    THEN <<"Qm", CHOOSE i \in 1..Len(store) : store[i] = content>>
    ELSE <<"Qm", Len(store) + 1>>

\* /add: the daemon stores the file and answers with one JSON document.
DaemonAdd(store, body) ==
    LET content == Joined(body)
        known   == \E i \in 1..Len(store) : store[i] = content
    IN  [store |-> IF known THEN store ELSE Append(store, content),
         response |-> << [Name |-> CidOf(store, content),
                          Hash |-> CidOf(store, content),
                          Size |-> Len(content)] >>]

\* /cat: the content of the file at this address, or an ErrorResponse.
DaemonCat(store, addr) ==
    IF \E i \in 1..Len(store) : addr = <<"Qm", i>>
    THEN [err |-> NoError, body |-> store[addr[2]]]
    ELSE [err |-> "ErrorResponse", body |-> <<>>]

\* base.returns_single_item: a list of exactly one item yields that item.
returns_single_item(result) ==
    IF Len(result) = 1 THEN [err |-> NoError, val |-> result[1]]
    ELSE [err |-> "AssertionError", val |-> JNull]

\* add_bytes: the body is streamed to /add and the 'Hash' field of the
\* single item of the response is returned.
add_bytes(store, data, size) ==
    LET r == DaemonAdd(store, stream_bytes(data, size))
    IN  [store |-> r.store, val |-> returns_single_item(r.response).val.Hash]

\* add_json: self.add_bytes(encoding.Json().encode(json_obj))
add_json(store, obj, size) == add_bytes(store, JsonEncode(obj), size)

\* A variant of get_json with a slip: the file is returned as it is stored.
GetJsonUndecoded(store, addr) ==
    LET r == DaemonCat(store, addr)
    IN  [err |-> r.err, val |-> JStr(r.body)]

\* get_json: self.cat(cid, decoder='json'), then the single item of it.
get_json(store, addr) ==
    LET r == DaemonCat(store, addr)
    IN  IF r.err # NoError THEN [err |-> r.err, val |-> JNull]
        ELSE LET docs == JsonDecodeAll(r.body, 1, <<>>)
             IN  IF docs.err # NoError THEN [err |-> docs.err, val |-> JNull]
                 ELSE returns_single_item(docs.val)

(***************************************************************************)
(* Inputs of the JSON helpers.                                             *)
(***************************************************************************)
JsonAlphabet == {"a", "b", Quote, Backslash}

IntSamples == {0 - 12, 0 - 1, 0, 7, 10}

JsonAtoms ==
    {JNull, JBool(TRUE), JBool(FALSE)}
        \cup {JInt(n) : n \in IntSamples}
        \cup {JStr(str) : str \in SeqsUpTo(JsonAlphabet, MaxStrLen)}

JsonNested ==
    { JList(<<>>), JList(<<JInt(7), JStr(<<Quote>>)>>), JDict(<<>>),
      JDict([k \in {<<"a">>} |-> JList(<<JNull>>)]) }

ListItems ==
    { JNull, JBool(FALSE), JInt(0 - 12), JStr(<<"a", Backslash>>) } \cup JsonNested

JsonKeys == {<<"b">>, <<"a", Quote>>}

JsonValues ==
    JsonAtoms
        \cup {JList(q) : q \in SeqsUpTo(ListItems, MaxItems)}
        \cup UNION {{JDict(f) : f \in [K -> JsonAtoms \cup JsonNested]} :
                       K \in SUBSET JsonKeys}

ChunkSizes == {1, 3, 4096}

\* What the daemon holds before the client adds anything.
StoresBefore ==
    { <<>>, << <<"n", "u", "l", "l">>, <<"[", "]">> >> }

JsonIdle ==
    /\ jpc = "start"
    /\ json_obj = JNull
    /\ chunk_size = 4096
    /\ blocks = <<>>
    /\ cid = <<>>
    /\ jOut = [err |-> NoError, val |-> JNull]

JsonInit ==
    /\ ClientIdle
    /\ daemonVersion = <<>>
    /\ vArgs = IdleVersionArgs
    /\ vOut = "pending"
    /\ jpc = "start"
    /\ json_obj \in JsonValues
    /\ chunk_size \in ChunkSizes
    /\ blocks \in StoresBefore
    /\ cid = <<>>
    /\ jOut = [err |-> NoError, val |-> JNull]

\* cid = client.add_json(json_obj)
AddJson ==
    /\ jpc = "start"
    /\ LET r == add_json(blocks, json_obj, chunk_size)
       IN  blocks' = r.store /\ cid' = r.val
    /\ jpc' = "added"
    /\ UNCHANGED <<versionVars, clientVars, json_obj, chunk_size, jOut>>

\* client.get_json(cid)
GetJson ==
    /\ jpc = "added"
    /\ jOut' = get_json(blocks, cid)
    /\ jpc' = "got"
    /\ UNCHANGED <<versionVars, clientVars, json_obj, chunk_size, blocks, cid>>

JsonNext == AddJson \/ GetJson

SpecJson == JsonInit /\ [][JsonNext]_vars

(***************************************************************************)
(* Inputs of the version gate.                                             *)
(***************************************************************************)
VerAlphabet == {"0", "1", ".", "-", "r"}

NamedVersions ==
    { <<"0", ".", "5", ".", "0">>,
      <<"0", ".", "6", ".", "0">>,
      <<"0", ".", "4", ".", "2", "0">>,
      <<"0", ".", "4", ".", "2", "1">>,
      <<"0", ".", "4", ".", "2", "1", "-", "r", "1">>,
      <<"0", ".", "5", ".", "0", "-", "r">>,
      <<"0", ".", "6">>,
      <<"0", ".", "1", "0">> }

VersionStrings == SeqsUpTo(VerAlphabet, MaxVerLen) \cup NamedVersions

MinimumStrings == { VERSION_MINIMUM, <<"0", ".", "1">>, <<"1">>, <<"0", "-", "1">> }

MaximumStrings == { VERSION_MAXIMUM, <<"1", ".", "0">>, <<"1", "0">>, <<"1", ".">> }

Blacklists ==
    { VERSION_BLACKLIST,
      << <<"0", ".", "5", ".", "0">> >>,
      << <<"0", ".", "1", "1", "-", "r">>, <<"1">> >>,
      << <<"1">>, <<"r">> >> }

VersionInit ==
    /\ ClientIdle
    /\ JsonIdle
    /\ daemonVersion = <<>>
    /\ vArgs \in [version : VersionStrings, minimum : MinimumStrings,
                  maximum : MaximumStrings, blacklist : Blacklists]
    /\ vOut = "pending"

\* One call of assert_version with the drawn arguments.
CallAssertVersion ==
    /\ vOut = "pending"
    /\ vOut' = assert_version(vArgs.version, vArgs.minimum, vArgs.maximum,
                              vArgs.blacklist)
    /\ UNCHANGED <<vArgs, clientVars, jsonVars>>

VersionNext == CallAssertVersion

SpecVersion == VersionInit /\ [][VersionNext]_vars


(***************************************************************************)
(* The caller: connect(), or Client(...) directly, and then the use of the *)
(* client it holds.                                                        *)
(***************************************************************************)
ClientInit ==
    /\ ClientIdle
    /\ JsonIdle
    /\ daemonVersion \in DaemonVersions
    /\ vArgs = IdleVersionArgs
    /\ vOut = "pending"

Record(op) == lastOp' = op /\ prevOp' = lastOp

\* connect(): client = Client(addr, base, chunk_size=..., session=session)
ConnectConstruct(s) ==
    /\ pc = "start"
    /\ pc' = "constructed"
    /\ viaConnect' = TRUE
    /\ http' = ClientNew(s)
    /\ Record("construct")
    /\ UNCHANGED <<versionVars, jsonVars, daemonVersion, reply, version_str, requestsSent,
                   gateRan, raised, returned, workarounds, scopes, exc, lastExit,
                   lastCall, closed>>

\* A variant of the version query with a slip: a failed request is sent again.
ConnectQueryRetries(outcome) ==
    /\ pc = "constructed"
    /\ requestsSent' = requestsSent + 1
    /\ http' = request(http).h
    /\ reply' = outcome
    /\ version_str' = IF outcome = "ok" THEN daemonVersion ELSE version_str
    /\ pc' = IF outcome = "ok" THEN "queried" ELSE "constructed"
    /\ raised' = raised
    /\ Record("query")
    /\ UNCHANGED <<versionVars, jsonVars, viaConnect, daemonVersion, gateRan, returned,
                   workarounds, scopes, exc, lastExit, lastCall, closed>>

\* connect(): version_str = client.version()["Version"]; the request either
\* returns the daemon's version or raises one of the request errors.
ConnectQuery(outcome) ==
    /\ pc = "constructed"
    /\ requestsSent' = requestsSent + 1
    /\ http' = request(http).h
    /\ reply' = outcome
    /\ IF outcome = "ok"
       THEN /\ version_str' = daemonVersion
            /\ pc' = "queried"
            /\ raised' = raised
       ELSE /\ version_str' = version_str
            /\ pc' = "failed"
            /\ raised' = outcome
    /\ Record("query")
    /\ UNCHANGED <<versionVars, jsonVars, viaConnect, daemonVersion, gateRan, returned,
                   workarounds, scopes, exc, lastExit, lastCall, closed>>

\* A variant of the gate step with a slip: the outcome of the gate is dropped.
ConnectGateIgnored ==
    /\ pc = "queried"
    /\ gateRan' = TRUE
    /\ pc' = "gated"
    /\ raised' = raised
    /\ Record("gate")
    /\ UNCHANGED <<versionVars, jsonVars, viaConnect, daemonVersion, reply, version_str,
                   requestsSent, returned, workarounds, http, scopes, exc,
                   lastExit, lastCall, closed>>

\* connect(): assert_version(version_str)
ConnectGate ==
    /\ pc = "queried"
    /\ gateRan' = TRUE
    /\ LET r == assert_version(version_str, VERSION_MINIMUM, VERSION_MAXIMUM,
                               VERSION_BLACKLIST)
       IN  IF r = "ok"
           THEN pc' = "gated" /\ raised' = raised
           ELSE pc' = "failed" /\ raised' = r
    /\ Record("gate")
    /\ UNCHANGED <<versionVars, jsonVars, viaConnect, daemonVersion, reply, version_str,
                   requestsSent, returned, workarounds, http, scopes, exc,
                   lastExit, lastCall, closed>>

\* connect(): the workaround for daemons before 0.5, then return client
ConnectReturn ==
    /\ pc = "gated"
    /\ workarounds' = IF ListLess(ParseVersion(version_str).v, <<0, 5>>)
                      THEN workarounds \cup {"use_http_head_for_no_result"}
                      ELSE workarounds
    /\ returned' = TRUE
    /\ pc' = "ready"
    /\ Record("return")
    /\ UNCHANGED <<versionVars, jsonVars, viaConnect, daemonVersion, reply, version_str,
                   requestsSent, gateRan, raised, http, scopes, exc, lastExit,
                   lastCall, closed>>

\* Client(addr, base, session=s): no version check.
Construct(s) ==
    /\ pc = "start"
    /\ pc' = "ready"
    /\ http' = ClientNew(s)
    /\ returned' = TRUE
    /\ Record("construct")
    /\ UNCHANGED <<versionVars, jsonVars, viaConnect, daemonVersion, reply, version_str,
                   requestsSent, gateRan, raised, workarounds, scopes, exc,
                   lastExit, lastCall, closed>>

\* `with client:` is entered: __enter__ runs; when it raises, the block is
\* not entered and __exit__ will not run for it.
Enter ==
    /\ pc = "ready"
    /\ exc = NoError
    /\ Len(scopes) < MaxDepth
    /\ http.made < MaxConn
    /\ LET r == __enter__(http)
       IN  /\ http' = r.h
           /\ IF r.err = NoError
              THEN /\ scopes' = Append(scopes, [conn |-> r.h.session])
                   /\ exc' = exc
                   /\ Record("enter")
              ELSE /\ scopes' = scopes
                   /\ exc' = r.err
                   /\ Record("enter_failed")
    /\ UNCHANGED <<versionVars, jsonVars, pc, viaConnect, daemonVersion, reply, version_str,
                   requestsSent, gateRan, raised, returned, workarounds, lastExit,
                   lastCall, closed>>

\* The innermost `with client:` block is left, by its body completing or by
\* an exception propagating out of it: __exit__ runs, and the exception goes
\* on unless __exit__ returned a true value.
Exit ==
    /\ pc = "ready"
    /\ scopes # <<>>
    /\ LET r   == __exit__(http, exc)
           top == scopes[Len(scopes)]
       IN  /\ http' = r.h
           /\ exc' = IF r.err # NoError THEN r.err
                     ELSE IF r.suppress THEN NoError
                     ELSE exc
           /\ lastExit' = [conn |-> top.conn, exc |-> exc]
           /\ closed' = closed \cup (http.pool \ r.h.pool)
    /\ scopes' = SubSeq(scopes, 1, Len(scopes) - 1)
    /\ Record("exit")
    /\ UNCHANGED <<versionVars, jsonVars, pc, viaConnect, daemonVersion, reply, version_str,
                   requestsSent, gateRan, raised, returned, workarounds, lastCall>>

\* client.close()
Close ==
    /\ pc = "ready"
    /\ exc = NoError
    /\ LET r == close(http)
       IN  /\ http' = r.h
           /\ exc' = r.err
           /\ closed' = closed \cup (http.pool \ r.h.pool)
    /\ Record("close")
    /\ UNCHANGED <<versionVars, jsonVars, pc, viaConnect, daemonVersion, reply, version_str,
                   requestsSent, gateRan, raised, returned, workarounds, scopes,
                   lastExit, lastCall>>

\* An API call, such as client.version(), that succeeds.
Call ==
    /\ pc = "ready"
    /\ exc = NoError
    /\ http.session # None \/ http.made < MaxConn
    /\ LET r == request(http)
       IN  /\ http' = r.h
           /\ lastCall' = [conn |-> r.conn, pooled |-> r.pooled,
                           result |-> daemonVersion]
    /\ Record("call")
    /\ UNCHANGED <<versionVars, jsonVars, pc, viaConnect, daemonVersion, reply, version_str,
                   requestsSent, gateRan, raised, returned, workarounds, scopes,
                   exc, lastExit, closed>>

BodyErrors == {"TimeoutError", "ErrorResponse"}

\* The body of a `with client:` block raises.
BodyRaise(e) ==
    /\ pc = "ready"
    /\ exc = NoError
    /\ scopes # <<>>
    /\ exc' = e
    /\ Record("raise")
    /\ UNCHANGED <<versionVars, jsonVars, pc, viaConnect, daemonVersion, reply, version_str,
                   requestsSent, gateRan, raised, returned, workarounds, http,
                   scopes, lastExit, lastCall, closed>>

\* The propagating exception is handled: by a try/except in the enclosing
\* block, or by the caller once every block has been left.
Catch ==
    /\ pc = "ready"
    /\ exc # NoError
    /\ raised' = exc
    /\ exc' = NoError
    /\ Record("catch")
    /\ UNCHANGED <<versionVars, jsonVars, pc, viaConnect, daemonVersion, reply, version_str,
                   requestsSent, gateRan, returned, workarounds, http, scopes,
                   lastExit, lastCall, closed>>

Next ==
    \/ \E s \in BOOLEAN : ConnectConstruct(s)
    \/ \E outcome \in {"ok"} \cup RequestErrors : ConnectQuery(outcome)
    \/ ConnectGate
    \/ ConnectReturn
    \/ \E s \in BOOLEAN : Construct(s)
    \/ Enter
    \/ Exit
    \/ Close
    \/ Call
    \/ \E e \in BodyErrors : BodyRaise(e)
    \/ Catch

Spec == ClientInit /\ [][Next]_vars

(***************************************************************************)
(* C1                                                                      *)
(***************************************************************************)
\* Version order as the specification states it: a is below b when, at the first
\* position where they differ, a has ended or holds the smaller number.
VersionBelow(a, b) ==
    \E k \in 1..Len(b) :
        /\ \A j \in 1..(k - 1) : j <= Len(a) /\ a[j] = b[j]
        /\ k > Len(a) \/ a[k] < b[k]

HasNumericPrefix(s) == ParseVersion(s).ok

ArgsWellFormed ==
    /\ HasNumericPrefix(vArgs.version)
    /\ HasNumericPrefix(vArgs.minimum)
    /\ HasNumericPrefix(vArgs.maximum)
    /\ \A i \in 1..Len(vArgs.blacklist) : HasNumericPrefix(vArgs.blacklist[i])

InRangeNotBlacklisted ==
    LET v   == ParseVersion(vArgs.version).v
        min == ParseVersion(vArgs.minimum).v
        max == ParseVersion(vArgs.maximum).v
    IN  /\ ~VersionBelow(v, min)
        /\ VersionBelow(v, max)
        /\ \A i \in 1..Len(vArgs.blacklist) :
               v # ParseVersion(vArgs.blacklist[i]).v

DefaultRange ==
    /\ vArgs.minimum = VERSION_MINIMUM
    /\ vArgs.maximum = VERSION_MAXIMUM
    /\ vArgs.blacklist = VERSION_BLACKLIST

\* C1: for version strings that have a dotted numeric prefix, assert_version
\* returns exactly when minimum <= version < maximum and the version equals
\* no blacklist entry (all compared by numeric prefix, suffix ignored), and
\* raises VersionMismatch in every other case; with minimum "0.4.21" and
\* maximum "0.6.0", "0.5.0" is accepted, "0.6.0" and "0.4.20" are rejected.
\* ValueError is raised only when some argument has no numeric prefix.
C1_GateAcceptsExactlyInRange ==
    vOut # "pending" =>
        /\ ArgsWellFormed =>
              /\ vOut \in {"ok", "VersionMismatch"}
              /\ vOut = "ok" <=> InRangeNotBlacklisted
        /\ vOut \in {"ok", "VersionMismatch", "ValueError"}
        /\ vOut = "ValueError" => ~ArgsWellFormed
        /\ DefaultRange /\ vArgs.version = <<"0", ".", "5", ".", "0">>
              => vOut = "ok"
        /\ DefaultRange /\ vArgs.version = <<"0", ".", "6", ".", "0">>
              => vOut = "VersionMismatch"
        /\ DefaultRange /\ vArgs.version = <<"0", ".", "4", ".", "2", "0">>
              => vOut = "VersionMismatch"

\* The exclusive upper bound: the maximum itself, with a suffix, is rejected,
\* although nothing is blacklisted.
C1_Witness ==
    /\ vOut = "VersionMismatch"
    /\ ArgsWellFormed
    /\ vArgs.blacklist = VERSION_BLACKLIST
    /\ ParseVersion(vArgs.version).v = ParseVersion(vArgs.maximum).v
    /\ vArgs.version # vArgs.maximum

(***************************************************************************)
(* C2, C9: connect()                                                       *)
(***************************************************************************)
\* The daemon's reported version lies in [VERSION_MINIMUM, VERSION_MAXIMUM)
\* and is not blacklisted, in the order of the specification.
ReportedVersionSupported ==
    LET v == ParseVersion(version_str)
    IN  /\ v.ok
        /\ ~VersionBelow(v.v, ParseVersion(VERSION_MINIMUM).v)
        /\ VersionBelow(v.v, ParseVersion(VERSION_MAXIMUM).v)
        /\ \A i \in 1..Len(VERSION_BLACKLIST) :
               v.v # ParseVersion(VERSION_BLACKLIST[i]).v

\* C2: connect() constructs the client, then sends the version query, then
\* runs the gate on the reply; when the reported version is outside the
\* supported range (or blacklisted) connect fails with VersionMismatch and
\* returns no client; a client is returned only after the gate accepted.
C2_ConnectGatesBeforeReturning ==
    viaConnect =>
        /\ requestsSent > 0 => pc # "start"
        /\ gateRan => reply = "ok" /\ requestsSent >= 1 /\ version_str = daemonVersion
        /\ returned => gateRan /\ ReportedVersionSupported
        /\ ( /\ gateRan
             /\ ParseVersion(version_str).ok
             /\ ~ReportedVersionSupported )
           => pc = "failed" /\ raised = "VersionMismatch" /\ ~returned
        /\ pc = "failed" => ~returned

\* The daemon reports 0.10.0, above the maximum as numbers though below it
\* as text: connect has failed with VersionMismatch.
C2_Witness ==
    /\ viaConnect
    /\ pc = "failed"
    /\ gateRan
    /\ version_str = <<"0", ".", "1", "0", ".", "0">>
    /\ raised = "VersionMismatch"
    /\ ~returned

\* C9: when the version query of connect() fails, exactly one request has
\* been sent, the error of that request is the one raised to the caller, the
\* gate is never run and no client is returned; connect never sends a
\* second request.
C9_QueryFailureNotRetried ==
    /\ requestsSent <= 1
    /\ reply \in RequestErrors =>
          /\ pc = "failed"
          /\ raised = reply
          /\ requestsSent = 1
          /\ ~gateRan
          /\ ~returned

C9_Witness ==
    /\ reply = "TimeoutError"
    /\ raised = "TimeoutError"
    /\ pc = "failed"
    /\ requestsSent = 1

(***************************************************************************)
(* C3, C4, C5, C6, C7, C10: session management                             *)
(***************************************************************************)
Top == scopes[Len(scopes)]

\* C3: when a `with client:` block has just been left, by normal completion
\* or by an exception, the client has no open session and the connection
\* opened on entry is no longer in the pool.
C3_ScopeExitReleases ==
    lastOp = "exit" =>
        /\ http.session = None
        /\ http.pool = {}
        /\ lastExit.conn \notin http.pool

\* A block whose body raised has been left, and its session was released.
C3_Witness ==
    /\ lastOp = "exit"
    /\ lastExit.exc # NoError
    /\ lastExit.conn \in closed
    /\ http.session = None

C5_CloseIdempotent ==
    /\ http.session = None => close(http) = [h |-> http, err |-> NoError]
    /\ close(close(http).h) = close(http)
    /\ lastOp = "close" =>
          /\ exc = NoError
          /\ http.session = None
          /\ http.pool = {}
          /\ request(http).conn # None

\* A session was opened and then closed twice in a row.
C5_Witness ==
    /\ lastOp = "close"
    /\ prevOp = "close"
    /\ closed # {}
    /\ exc = NoError
    /\ http.session = None

\* C6 as stated: every call made inside a `with client:` block uses the
\* connection opened on entry to that block, every call made with no session
\* open uses a connection of its own, and both return the same result.
C6_Original ==
    lastOp = "call" =>
        /\ scopes # <<>> => lastCall.conn = Top.conn /\ lastCall.pooled
        /\ http.session = None => ~lastCall.pooled /\ lastCall.conn \notin http.pool
        /\ lastCall.result = daemonVersion

\* C6, amended: entering a block opens a pooled connection; a call made
\* inside a block uses the connection opened on entry as long as that
\* connection has not been released inside the block (by close()); a call
\* made while no session is open uses a connection of its own, made for the
\* call and not kept; both kinds of call return the same result.
C6_CallsUseScopeConnection ==
    /\ lastOp = "enter" =>
          /\ Top.conn # None
          /\ Top.conn = http.session
          /\ Top.conn \in http.pool
          /\ Top.conn \notin closed
    /\ lastOp = "call" =>
          /\ \A i \in 1..Len(scopes) :
                 scopes[i].conn \in http.pool =>
                     lastCall.conn = scopes[i].conn /\ lastCall.pooled
          /\ lastCall.pooled <=> http.session # None
          /\ ~lastCall.pooled =>
                 /\ lastCall.conn = http.made
                 /\ lastCall.conn \notin http.pool
                 /\ lastCall.conn \notin closed
          /\ lastCall.result = daemonVersion

\* Two calls in a row inside a block, both on the connection opened on entry.
C6_Witness ==
    /\ lastOp = "call"
    /\ prevOp = "call"
    /\ scopes # <<>>
    /\ lastCall.pooled
    /\ lastCall.conn = Top.conn

C10_ExitPropagates ==
    lastOp = "exit" /\ lastExit.exc # NoError =>
        /\ exc = lastExit.exc
        /\ http.session = None

\* The outermost block was left by a TimeoutError, which now reaches the
\* caller.
C10_Witness ==
    /\ lastOp = "exit"
    /\ lastExit.exc = "TimeoutError"
    /\ exc = "TimeoutError"
    /\ scopes = <<>>
    /\ lastExit.conn \in closed

====
